---- MODULE Spec2Model ----
(***************************************************************************)
(* A model of the crypto-derivatives dashboard services:                   *)
(*   services/Enhanced_derivatives.py  EnhancedDerivativesService          *)
(*   services/enhanced_alerts.py       EnhancedAlertsService               *)
(*                                                                         *)
(* Numbers are fixed-point integers, Scale units to 1.0: a raw funding     *)
(* rate of 0.00045 is 45, the percentage 0.045 is 4500.  Time is in whole  *)
(* seconds (datetime.now() as seconds since the service was constructed).  *)
(* A dict is a sequence of [coin, val] pairs in insertion order.           *)
(***************************************************************************)
EXTENDS Integers, Sequences, FiniteSets, TLC

VARIABLES
    now,                  \* datetime.now()
    cache,                \* EnhancedDerivativesService._cache : key -> [data, timestamp]
    task,                 \* the derivatives coroutine in flight (NoTask when idle)
    probe,                \* the venue responses of the last per-coin fetch
    supplied,             \* per cache key, the raw venue value behind each cached value
    returned,             \* what the last completed operation handed to its caller
    prev,                 \* the operation completed before that one
    ncalls,               \* operations started so far
    summary,              \* the get_market_summary call in flight and its gathered coroutines
    alert_history,        \* EnhancedAlertsService.alert_history
    max_alerts_per_hour,  \* EnhancedAlertsService.max_alerts_per_hour
    decisions,            \* results of the should_send_alert calls made so far
    send_error,           \* the exception the last send_*_alert call raised ("" if none)
    senders,              \* the send_*_alert coroutines of an asyncio.gather
    whale,                \* the last generate_realistic_whale_data call and its outcome
    obtained,             \* per cache key, when the oldest venue value of the entry was fetched
    stats                 \* what the last get_alert_stats call returned

vars == <<now, cache, task, probe, supplied, returned, prev, ncalls, summary,
          alert_history, max_alerts_per_hour, decisions, send_error, senders, whale,
          obtained, stats>>

derivVars == <<cache, task, probe, supplied, returned, prev, ncalls, summary, obtained>>
alertVars == <<alert_history, max_alerts_per_hour, decisions, send_error, senders, stats>>
whaleVars == <<whale>>

----------------------------------------------------------------------------
(* Bounds of the model *)

MaxCalls == 2          \* operations started in one behaviour of Spec
MaxCacheCalls == 3     \* operations started in one behaviour of SpecCache
MaxDetectCalls == 2    \* operations started in one behaviour of SpecDetect

(* Fixed-point scale: Scale units are 1.0, so that 0.00001 is one unit *)
Scale == 100 * 1000

----------------------------------------------------------------------------
(* Program constants *)

cache_ttl == 60

batch_size == 5

supported_coins ==
    { "BTC", "ETH", "SOL", "AVAX", "MATIC", "ARB", "OP", "DOGE",
      "ADA", "DOT", "LINK", "UNI", "AAVE", "COMP", "MKR", "SNX",
      "CRV", "SUSHI", "YFI", "BAL", "REN", "KNC", "ZRX", "BAND",
      "ALGO", "ATOM", "NEAR", "FTM", "LUNA", "ICP", "VET", "TRX",
      "EOS", "XTZ", "THETA", "FIL", "EGLD", "HBAR", "FLOW", "MANA",
      "XRP", "LTC", "BCH", "ETC", "XLM", "DASH", "ZEC", "XMR" }

(* self.exchanges, in dict insertion order *)
exchanges == << "binance", "bybit", "okx" >>

----------------------------------------------------------------------------
(* Dicts: sequences of [coin, val] pairs in insertion order *)

EmptyDict == << >>

DictKeys(d) == { d[j].coin : j \in 1..Len(d) }

DictHas(d, c) == \E j \in 1..Len(d) : d[j].coin = c

DictGet(d, c) == d[CHOOSE j \in 1..Len(d) : d[j].coin = c].val

(* A DictPut that rebuilds the dict with the one entry *)
DictPutClobber(d, c, v) == << [coin |-> c, val |-> v] >>

(* d[c] = v : an existing key keeps its position, a new key goes last *)
DictPut(d, c, v) ==
    IF DictHas(d, c)
    THEN [j \in 1..Len(d) |-> IF d[j].coin = c THEN [coin |-> c, val |-> v] ELSE d[j]]
    ELSE Append(d, [coin |-> c, val |-> v])

Abs(x) == IF x < 0 THEN -x ELSE x

----------------------------------------------------------------------------
(* Cache keys *)

(* Python orders strings by code point; the symbols the model requests, in that order *)
SymbolOrder == << "ADA", "BTC", "BTC:ETH", "DOGE", "ETH", "FOO", "SOL", "XRP" >>

Rank(c) == CHOOSE j \in 1..Len(SymbolOrder) : SymbolOrder[j] = c

RECURSIVE InsertSorted(_, _)
InsertSorted(s, c) ==
    IF s = << >> THEN << c >>
    ELSE IF Rank(c) < Rank(Head(s)) THEN << c >> \o s
    ELSE << Head(s) >> \o InsertSorted(Tail(s), c)

(* A sorted() that leaves the coins in the order of the request *)
Unsorted(coins) == coins

(* sorted(coins) *)
RECURSIVE Sorted(_)
Sorted(coins) ==
    IF coins = << >> THEN << >>
    ELSE InsertSorted(Sorted(SubSeq(coins, 1, Len(coins) - 1)), coins[Len(coins)])

(* ':'.join(map(str, args)) *)
RECURSIVE Join(_)
Join(args) ==
    IF args = << >> THEN ""
    ELSE IF Len(args) = 1 THEN args[1]
    ELSE args[1] \o ":" \o Join(Tail(args))

(* f"{method}:{':'.join(map(str, args))}" *)
GetCacheKey(method, args) == method \o ":" \o Join(args)

----------------------------------------------------------------------------
(* The TTL cache *)

(* timedelta.seconds of a non-negative timedelta of d seconds: the days are dropped *)
TimedeltaSeconds(d) == d % 86400

IsCacheValid(key) ==
    IF key \notin DOMAIN cache THEN FALSE
    ELSE TimedeltaSeconds(now - cache[key].timestamp) < cache_ttl

(* None is [some |-> FALSE] *)
None == [some |-> FALSE, data |-> EmptyDict]

GetCachedData(key) ==
    IF IsCacheValid(key) THEN [some |-> TRUE, data |-> cache[key].data] ELSE None

(* A _set_cache that stores nothing *)
SetCacheForget(key, data) == cache

SetCache(key, data) ==
    [k \in DOMAIN cache \cup {key} |->
        IF k = key THEN [data |-> data, timestamp |-> now] ELSE cache[k]]

----------------------------------------------------------------------------
(* Venue responses.  A field of a response dict is missing, null or a number *)

Missing == [st |-> "missing", v |-> 0]
Null == [st |-> "null", v |-> 0]
Num(x) == [st |-> "num", v |-> x]

(* Python truthiness of dict.get(field): None and 0 are falsy *)
FieldTruthy(f) == f.st = "num" /\ f.v # 0

(* exchange.fetch_*(symbol) raises, returns None, or returns a dict *)
Raises == [kind |-> "raise", f |-> Missing]
NoResponse == [kind |-> "none", f |-> Missing]
Dict(f) == [kind |-> "dict", f |-> f]

(* One venue attempt of _get_funding_rate_for_coin, from venue k on:
   try: rate = fetch_funding_rate(symbol); if rate and rate.get('fundingRate'):
   return rate['fundingRate'] * 100;  except Exception: continue;  ... return 0.0 *)
RECURSIVE FundingWalk(_, _)
FundingWalk(resps, k) ==
    IF k > Len(exchanges) THEN [value |-> 0, calls |-> Len(exchanges), raw |-> Missing]
    ELSE IF resps[k].kind = "raise" THEN FundingWalk(resps, k + 1)
    ELSE IF resps[k].kind = "dict" /\ FieldTruthy(resps[k].f)
         THEN [value |-> resps[k].f.v * 100, calls |-> k, raw |-> resps[k].f]
    ELSE FundingWalk(resps, k + 1)

(* A _get_funding_rate_for_coin that applies the percentage conversion twice *)
GetFundingRateForCoinTwice(resps) ==
    [FundingWalk(resps, 1) EXCEPT !.value = @ * 100]

GetFundingRateForCoin(resps) == FundingWalk(resps, 1)

(* _get_open_interest_for_coin: the same walk, returning float(oi['openInterestValue']) *)
RECURSIVE OpenInterestWalk(_, _)
OpenInterestWalk(resps, k) ==
    IF k > Len(exchanges) THEN [value |-> 0, calls |-> Len(exchanges), raw |-> Missing]
    ELSE IF resps[k].kind = "raise" THEN OpenInterestWalk(resps, k + 1)
    ELSE IF resps[k].kind = "dict" /\ FieldTruthy(resps[k].f)
         THEN [value |-> resps[k].f.v, calls |-> k, raw |-> resps[k].f]
    ELSE OpenInterestWalk(resps, k + 1)

GetOpenInterestForCoin(resps) == OpenInterestWalk(resps, 1)

----------------------------------------------------------------------------
(* detect_funding_anomalies, after the funding rates are fetched *)

(* A severity whose HIGH band includes exactly 1.0 *)
SeverityAtLeast(rate) == IF Abs(rate) >= 1 * Scale THEN "HIGH" ELSE "MEDIUM"

Severity(rate) == IF Abs(rate) > 1 * Scale THEN "HIGH" ELSE "MEDIUM"

Direction(rate) == IF rate > 0 THEN "BULLISH" ELSE "BEARISH"

(* for coin, rate in funding_rates.items(): if abs(rate) > threshold: append *)
RECURSIVE CollectAnomalies(_, _)
CollectAnomalies(funding_rates, threshold) ==
    IF funding_rates = << >> THEN << >>
    ELSE LET e == Head(funding_rates)
             rest == CollectAnomalies(Tail(funding_rates), threshold)
         IN  IF Abs(e.val) > threshold
             THEN << [coin |-> e.coin, funding_rate |-> e.val,
                      severity |-> Severity(e.val),
                      direction |-> Direction(e.val)] >> \o rest
             ELSE rest

(* A descending insertion that puts x before the elements of equal key *)
RECURSIVE InsertDescendingUnstable(_, _)
InsertDescendingUnstable(s, x) ==
    IF s = << >> THEN << x >>
    ELSE IF Abs(x.funding_rate) >= Abs(Head(s).funding_rate) THEN << x >> \o s
    ELSE << Head(s) >> \o InsertDescendingUnstable(Tail(s), x)

(* x goes after every element whose key is at least its own: equal keys keep
   their order, as sorted(..., reverse=True) does *)
RECURSIVE InsertDescending(_, _)
InsertDescending(s, x) ==
    IF s = << >> THEN << x >>
    ELSE IF Abs(x.funding_rate) > Abs(Head(s).funding_rate) THEN << x >> \o s
    ELSE << Head(s) >> \o InsertDescending(Tail(s), x)

(* sorted(anomalies, key=lambda x: abs(x['funding_rate']), reverse=True) *)
RECURSIVE SortedDescending(_)
SortedDescending(anomalies) ==
    IF anomalies = << >> THEN << >>
    ELSE InsertDescending(SortedDescending(SubSeq(anomalies, 1, Len(anomalies) - 1)),
                          anomalies[Len(anomalies)])

DetectFundingAnomalies(funding_rates, threshold) ==
    SortedDescending(CollectAnomalies(funding_rates, threshold))

----------------------------------------------------------------------------
(* Ticker responses: a dict with the fields quoteVolume, mark and last *)

TickerRaises == [kind |-> "raise", quoteVolume |-> Missing, mark |-> Missing, last |-> Missing]
TickerNone == [kind |-> "none", quoteVolume |-> Missing, mark |-> Missing, last |-> Missing]
Ticker(vol, mark, last) == [kind |-> "dict", quoteVolume |-> vol, mark |-> mark, last |-> last]

(* dict.get(key, default): the default only when the key is missing *)
GetOr(f, default) == IF f.st = "missing" THEN default ELSE f

(* _get_ticker_data_for_coin: the first venue that answers with a dict decides *)
RECURSIVE TickerWalk(_, _)
TickerWalk(resps, k) ==
    IF k > Len(exchanges)
    THEN [volume |-> Num(0), mark_price |-> Num(0), funding_time |-> Null,
          calls |-> Len(exchanges)]
    ELSE IF resps[k].kind = "dict"
    THEN [volume |-> GetOr(resps[k].quoteVolume, Num(0)),
          mark_price |-> GetOr(resps[k].mark, GetOr(resps[k].last, Num(0))),
          funding_time |-> Null,
          calls |-> k]
    ELSE TickerWalk(resps, k + 1)

GetTickerDataForCoin(resps) == TickerWalk(resps, 1)

(* ['last'] on a response: None and a missing key raise, caught by the except *)
LastRaises(r) == r.kind # "dict" \/ r.last.st = "missing"

(* _calculate_basis_for_coin: futures and spot ticker of binance, no fallback;
   the quotient is truncated to the fixed-point grid *)
CalculateBasisForCoin(fut, spot) ==
    IF LastRaises(fut) THEN [value |-> 0, calls |-> 1, raw |-> Missing]
    ELSE IF LastRaises(spot) THEN [value |-> 0, calls |-> 2, raw |-> Missing]
    ELSE IF FieldTruthy(fut.last) /\ FieldTruthy(spot.last) /\ spot.last.v > 0
         THEN [value |-> ((fut.last.v - spot.last.v) * 100 * Scale) \div spot.last.v,
               calls |-> 2, raw |-> Missing]
    ELSE [value |-> 0, calls |-> 2, raw |-> Missing]

----------------------------------------------------------------------------
(* The order in which get_multi_coin_funding_rates walks the coins:
   for i in range(0, len(coins), batch_size): for coin in coins[i:i + batch_size] *)

(* A batching that walks the batches from the last to the first *)
RECURSIVE BatchesLastFirst(_, _)
BatchesLastFirst(coins, start) ==
    IF start > Len(coins) THEN << >>
    ELSE LET stop == IF start + batch_size - 1 < Len(coins)
                     THEN start + batch_size - 1 ELSE Len(coins)
         IN  BatchesLastFirst(coins, start + batch_size) \o SubSeq(coins, start, stop)

RECURSIVE Batches(_, _)
Batches(coins, start) ==
    IF start > Len(coins) THEN << >>
    ELSE LET stop == IF start + batch_size - 1 < Len(coins)
                     THEN start + batch_size - 1 ELSE Len(coins)
         IN  SubSeq(coins, start, stop) \o Batches(coins, start + batch_size)

(* The coins of a fetch in processing order *)
LoopOrder(metric, coins) ==
    IF metric = "funding_rates" THEN Batches(coins, 1) ELSE coins

----------------------------------------------------------------------------
(* The coroutine of one service operation.  pc is "check" at the cache check
   that opens a fetch method, "loop" inside its loop over the coins, "sleep"
   at the await asyncio.sleep(0.1) after a coin, "done" when its result is
   ready for the caller. *)

EmptyData ==
    [funding_rates |-> EmptyDict, open_interest |-> EmptyDict, volume_24h |-> EmptyDict,
     mark_prices |-> EmptyDict, next_funding_time |-> EmptyDict]

(* The fetch time of a result that holds no venue value *)
Never == -1

(* The older of two fetch times *)
Older(a, b) == IF a = Never THEN b ELSE IF b = Never THEN a ELSE IF a < b THEN a ELSE b

(* asof is the time the oldest venue value the coroutine holds was fetched *)
NoTask ==
    [op |-> "none", coins |-> << >>, threshold |-> 0, pc |-> "idle", metric |-> "",
     i |-> 0, acc |-> EmptyDict, raw |-> EmptyDict, data |-> EmptyData,
     hit |-> FALSE, hitAge |-> 0,
     vcalls |-> 0, start |-> 0, result |-> EmptyDict, asof |-> Never]

NoProbe == [coin |-> "", metric |-> "", resps |-> << >>, value |-> 0, before |-> EmptyDict]

NoCall ==
    [op |-> "none", coins |-> << >>, threshold |-> 0, result |-> EmptyDict,
     hit |-> FALSE, hitAge |-> 0, vcalls |-> 0, start |-> 0, time |-> 0]

FetchOps == { "get_multi_coin_funding_rates", "get_multi_coin_open_interest",
              "get_basis_data", "get_perpetual_data" }

(* The cache-key method name of the fetch method an operation enters first *)
EntryMetric(op) ==
    CASE op = "get_multi_coin_funding_rates" -> "funding_rates"
      [] op = "get_multi_coin_open_interest" -> "open_interest"
      [] op = "get_basis_data" -> "basis_data"
      [] op = "get_perpetual_data" -> "perpetual_data"
      [] op = "detect_funding_anomalies" -> "funding_rates"

(* if cached_data: -- None and an empty dict are falsy *)
Truthy(cached) == cached.some /\ DOMAIN cached.data # {}

(* The fetch method of t.metric hands value to the code that awaited it *)
FetchReturns(t, value) ==
    CASE t.op = "detect_funding_anomalies" ->
            [t EXCEPT !.acc = value,
                      !.result = DetectFundingAnomalies(value, t.threshold),
                      !.pc = "done"]
      [] t.op = "get_perpetual_data" /\ t.metric = "funding_rates" ->
            [t EXCEPT !.data.funding_rates = value, !.metric = "open_interest",
                      !.pc = "check"]
      [] t.op = "get_perpetual_data" /\ t.metric = "open_interest" ->
            [t EXCEPT !.data.open_interest = value, !.metric = "ticker",
                      !.pc = "loop", !.i = 1]
      [] OTHER -> [t EXCEPT !.result = value, !.pc = "done"]

(* A caller starts an operation *)
Call(op, coins, threshold, limit) ==
    /\ task.op = "none"
    /\ ncalls < limit
    /\ task' = [NoTask EXCEPT !.op = op, !.coins = coins, !.threshold = threshold,
                              !.pc = "check", !.metric = EntryMetric(op), !.start = now]
    /\ ncalls' = ncalls + 1
    /\ UNCHANGED <<now, cache, probe, returned, prev, supplied, alertVars, summary, whaleVars, obtained>>

(* cache_key = ...; cached_data = self._get_cached_data(cache_key);
   if cached_data: return cached_data *)
Check ==
    /\ task.pc = "check"
    /\ LET key == GetCacheKey(task.metric, Sorted(task.coins))
           cached == GetCachedData(key)
           top == task.metric = EntryMetric(task.op)
       IN  IF Truthy(cached)
           THEN task' = FetchReturns(
                            [task EXCEPT !.hit = top,
                                         !.hitAge = IF top THEN now - cache[key].timestamp
                                                    ELSE 0,
                                         !.raw = supplied[key],
                                         !.asof = Older(@, obtained[key])],
                            cached.data)
           ELSE IF task.metric = "perpetual_data"
           THEN task' = [task EXCEPT !.data = EmptyData, !.metric = "funding_rates"]
           ELSE task' = [task EXCEPT !.acc = EmptyDict, !.raw = EmptyDict, !.i = 1,
                                     !.pc = "loop"]
    /\ UNCHANGED <<now, cache, probe, returned, prev, ncalls, supplied, alertVars, summary, whaleVars, obtained>>

Order == LoopOrder(task.metric, task.coins)

InLoop == task.pc = "loop" /\ task.i <= Len(Order)

(* if coin not in self.supported_coins: continue *)
SkipCoin ==
    /\ InLoop
    /\ Order[task.i] \notin supported_coins
    /\ task' = [task EXCEPT !.i = @ + 1]
    /\ UNCHANGED <<now, cache, probe, returned, prev, ncalls, supplied, alertVars, summary, whaleVars, obtained>>

(* One supported coin of a fetch loop: r is what the per-coin method returned for
   the venue responses resps; then await asyncio.sleep(0.1) *)
RecordCoin(r, resps) ==
    LET coin == Order[task.i]
    IN  /\ task' = [task EXCEPT !.acc = DictPut(@, coin, r.value),
                                !.raw = DictPut(@, coin, r.raw), !.i = @ + 1,
                                !.vcalls = @ + r.calls, !.pc = "sleep",
                                !.asof = Older(@, now)]
        /\ probe' = [coin |-> coin, metric |-> task.metric,
                     resps |-> SubSeq(resps, 1, r.calls), value |-> r.value,
                     before |-> task.acc]
        /\ UNCHANGED <<now, cache, returned, prev, ncalls, supplied, alertVars, summary, whaleVars, obtained>>

(* funding_rate = await self._get_funding_rate_for_coin(coin) *)
FetchFundingRate(responses) ==
    /\ InLoop
    /\ task.metric = "funding_rates"
    /\ Order[task.i] \in supported_coins
    /\ \E resps \in [1..Len(exchanges) -> responses] :
          RecordCoin(GetFundingRateForCoin(resps), resps)

(* oi_value = await self._get_open_interest_for_coin(coin) *)
FetchOpenInterest(responses) ==
    /\ InLoop
    /\ task.metric = "open_interest"
    /\ Order[task.i] \in supported_coins
    /\ \E resps \in [1..Len(exchanges) -> responses] :
          RecordCoin(GetOpenInterestForCoin(resps), resps)

(* basis = await self._calculate_basis_for_coin(coin) *)
FetchBasis(tickers) ==
    /\ InLoop
    /\ task.metric = "basis_data"
    /\ Order[task.i] \in supported_coins
    /\ \E fut \in tickers, spot \in tickers :
          RecordCoin(CalculateBasisForCoin(fut, spot), << fut, spot >>)

(* ticker_data = await self._get_ticker_data_for_coin(coin) and the three
   assignments of get_perpetual_data; this loop does not sleep *)
FetchTicker(tickers) ==
    /\ InLoop
    /\ task.metric = "ticker"
    /\ Order[task.i] \in supported_coins
    /\ \E resps \in [1..Len(exchanges) -> tickers] :
          LET coin == Order[task.i]
              r == GetTickerDataForCoin(resps)
          IN  /\ task' = [task EXCEPT
                            !.data.volume_24h = DictPut(@, coin, r.volume),
                            !.data.mark_prices = DictPut(@, coin, r.mark_price),
                            !.data.next_funding_time = DictPut(@, coin, r.funding_time),
                            !.i = @ + 1, !.vcalls = @ + r.calls]
              /\ probe' = [coin |-> coin, metric |-> task.metric,
                           resps |-> SubSeq(resps, 1, r.calls), value |-> 0,
                           before |-> EmptyDict]
    /\ UNCHANGED <<now, cache, returned, prev, ncalls, supplied, alertVars, summary, whaleVars, obtained>>

(* The sleep after a coin is over *)
Wake ==
    /\ task.pc = "sleep"
    /\ task' = [task EXCEPT !.pc = "loop"]
    /\ probe' = NoProbe
    /\ UNCHANGED <<now, cache, returned, prev, ncalls, supplied, alertVars, summary, whaleVars, obtained>>

(* The loop is over: self._set_cache(cache_key, ...); return ... *)
Store ==
    /\ task.pc = "loop"
    /\ task.i > Len(Order)
    /\ IF task.metric = "ticker"
       THEN /\ cache' = SetCache(GetCacheKey("perpetual_data", Sorted(task.coins)), task.data)
            /\ task' = [task EXCEPT !.result = task.data, !.pc = "done"]
       ELSE /\ cache' = SetCache(GetCacheKey(task.metric, Sorted(task.coins)), task.acc)
            /\ task' = FetchReturns(task, task.acc)
    /\ supplied' = LET key == GetCacheKey(IF task.metric = "ticker" THEN "perpetual_data"
                                          ELSE task.metric, Sorted(task.coins))
                   IN  [k \in DOMAIN supplied \cup {key} |->
                          IF k = key THEN task.raw ELSE supplied[k]]
    /\ obtained' = LET key == GetCacheKey(IF task.metric = "ticker" THEN "perpetual_data"
                                          ELSE task.metric, Sorted(task.coins))
                   IN  [k \in DOMAIN obtained \cup {key} |->
                          IF k # key THEN obtained[k]
                          ELSE IF task.metric = "ticker" THEN task.asof ELSE now]
    /\ probe' = NoProbe
    /\ UNCHANGED <<now, returned, prev, ncalls, alertVars, summary, whaleVars>>

(* The operation hands its result to the caller *)
Return ==
    /\ task.pc = "done"
    /\ returned' = [op |-> task.op, coins |-> task.coins, threshold |-> task.threshold,
                    result |-> task.result, hit |-> task.hit, hitAge |-> task.hitAge,
                    vcalls |-> task.vcalls, start |-> task.start, time |-> now]
    /\ prev' = returned
    /\ task' = NoTask
    /\ UNCHANGED <<now, cache, probe, ncalls, supplied, alertVars, summary, whaleVars, obtained>>

----------------------------------------------------------------------------
(* get_market_summary: four fetch coroutines run by one asyncio.gather with
   return_exceptions=True.  One coroutine runs at a time, in task; the others
   wait in summary.parked.  A coroutine runs until it awaits asyncio.sleep or
   ends; the event loop then resumes the coroutine that has waited longest
   (the sleeps are all 0.1 s, so they end in the order they began). *)

SummaryOps ==
    << "get_multi_coin_funding_rates", "get_multi_coin_open_interest",
       "get_perpetual_data", "get_basis_data" >>

Pending == [st |-> "pending", value |-> EmptyDict]
Exception == [st |-> "exception", value |-> EmptyDict]
Value(v) == [st |-> "value", value |-> v]

NoSummary ==
    [pc |-> "idle", coins |-> << >>, parked |-> << >>, queue |-> << >>, cur |-> 0,
     outcome |-> << >>, vcalls |-> 0, start |-> 0, result |-> << >>]

(* perp_data = {'funding_rates': {}, 'open_interest': {}, 'volume_24h': {},
   'mark_prices': {}} *)
PerpDefault ==
    [funding_rates |-> EmptyDict, open_interest |-> EmptyDict, volume_24h |-> EmptyDict,
     mark_prices |-> EmptyDict]

(* A substitution that drops the fetched result as well *)
SubstituteAlways(outcome, default) == default

(* if isinstance(x, Exception): x = default *)
Substitute(outcome, default) ==
    IF outcome.st = "exception" THEN default ELSE outcome.value

(* The record get_market_summary returns *)
MarketSummary(outcome, at) ==
    [funding_rates |-> Substitute(outcome[1], EmptyDict),
     open_interest |-> Substitute(outcome[2], EmptyDict),
     perpetual_data |-> Substitute(outcome[3], PerpDefault),
     basis_data |-> Substitute(outcome[4], EmptyDict),
     timestamp |-> at]

(* funding_task = ...; oi_task = ...; perp_task = ...; basis_task = ...;
   await asyncio.gather(...): the four coroutines are scheduled in this order *)
CallSummary(coins, limit) ==
    /\ task.op = "none"
    /\ summary.pc = "idle"
    /\ ncalls < limit
    /\ summary' = [NoSummary EXCEPT
                      !.pc = "gather", !.coins = coins, !.start = now,
                      !.parked = [k \in 1..Len(SummaryOps) |->
                                    [NoTask EXCEPT !.op = SummaryOps[k], !.coins = coins,
                                                   !.pc = "check",
                                                   !.metric = EntryMetric(SummaryOps[k]),
                                                   !.start = now]],
                      !.queue = [k \in 1..Len(SummaryOps) |-> k],
                      !.outcome = [k \in 1..Len(SummaryOps) |-> Pending]]
    /\ ncalls' = ncalls + 1
    /\ UNCHANGED <<now, cache, task, probe, returned, prev, supplied, alertVars, whaleVars, obtained>>

(* The event loop runs the coroutine at the head of its queue *)
Resume ==
    /\ summary.pc = "gather"
    /\ summary.cur = 0
    /\ summary.queue # << >>
    /\ task' = summary.parked[Head(summary.queue)]
    /\ summary' = [summary EXCEPT !.cur = Head(summary.queue), !.queue = Tail(@)]
    /\ UNCHANGED <<now, cache, probe, returned, prev, ncalls, supplied, alertVars, whaleVars, obtained>>

(* await asyncio.sleep(0.1) suspends the running coroutine; it goes on in its
   loop when it is resumed *)
Yield ==
    /\ summary.pc = "gather"
    /\ task.pc = "sleep"
    /\ summary' = [summary EXCEPT !.parked[summary.cur] = [task EXCEPT !.pc = "loop"],
                                  !.queue = Append(@, summary.cur), !.cur = 0]
    /\ task' = NoTask
    /\ probe' = NoProbe
    /\ UNCHANGED <<now, cache, returned, prev, ncalls, supplied, alertVars, whaleVars, obtained>>

(* The running coroutine returns: gather keeps its result *)
Finish ==
    /\ summary.pc = "gather"
    /\ task.pc = "done"
    /\ summary' = [summary EXCEPT !.outcome[summary.cur] = Value(task.result),
                                  !.parked[summary.cur] = task,
                                  !.vcalls = @ + task.vcalls, !.cur = 0]
    /\ task' = NoTask
    /\ UNCHANGED <<now, cache, probe, returned, prev, ncalls, supplied, alertVars, whaleVars, obtained>>

(* The running coroutine raises where a fetch method begins (coins that cannot
   be sorted, sliced or iterated, or a fetch method that fails as a whole):
   gather keeps the exception *)
SubRaise ==
    /\ summary.pc = "gather"
    /\ task.pc = "check"
    /\ summary' = [summary EXCEPT !.outcome[summary.cur] = Exception,
                                  !.parked[summary.cur] = [task EXCEPT !.pc = "raised"],
                                  !.vcalls = @ + task.vcalls, !.cur = 0]
    /\ task' = NoTask
    /\ UNCHANGED <<now, cache, probe, returned, prev, ncalls, supplied, alertVars, whaleVars, obtained>>

(* gather is complete: the exceptions are replaced and the record is built *)
Assemble ==
    /\ summary.pc = "gather"
    /\ summary.cur = 0
    /\ summary.queue = << >>
    /\ summary' = [summary EXCEPT !.pc = "done",
                                  !.result = MarketSummary(summary.outcome, now)]
    /\ UNCHANGED <<now, cache, task, probe, returned, prev, ncalls, supplied, alertVars, whaleVars, obtained>>

(* get_market_summary hands the record to its caller *)
ReturnSummary ==
    /\ summary.pc = "done"
    /\ returned' = [NoCall EXCEPT !.op = "get_market_summary", !.coins = summary.coins,
                                  !.result = summary.result, !.vcalls = summary.vcalls,
                                  !.start = summary.start, !.time = now]
    /\ prev' = returned
    /\ summary' = NoSummary
    /\ UNCHANGED <<now, cache, task, probe, ncalls, supplied, alertVars, whaleVars, obtained>>

(* clear_cache without the self.cache.clear() statement: only the log line *)
ClearCacheKeep(limit) ==
    /\ task.op = "none"
    /\ ncalls < limit
    /\ returned' = [NoCall EXCEPT !.op = "clear_cache", !.start = now, !.time = now]
    /\ prev' = returned
    /\ ncalls' = ncalls + 1
    /\ UNCHANGED <<now, cache, supplied, task, probe, alertVars, summary, whaleVars, obtained>>

----------------------------------------------------------------------------
(* clear_cache *)
ClearCache(limit) ==
    /\ task.op = "none"
    /\ ncalls < limit
    /\ cache' = << >>
    /\ supplied' = << >>
    /\ obtained' = << >>
    /\ returned' = [NoCall EXCEPT !.op = "clear_cache", !.start = now, !.time = now]
    /\ prev' = returned
    /\ ncalls' = ncalls + 1
    /\ UNCHANGED <<now, task, probe, alertVars, summary, whaleVars>>

(* No send coroutine has been created *)
NoSenders == << >>

(* get_alert_stats has not been called *)
NoStats ==
    [called |-> FALSE, at |-> 0, total_alerts_last_hour |-> 0, alerts_by_type |-> << >>,
     rate_limit_status |-> << 0, 0 >>, last_alert |-> Null]

(* generate_realistic_whale_data has not been called *)
NoWhale ==
    [status |-> "idle", coins |-> << >>, count |-> 0, base_time |-> 0,
     drawn |-> << >>, activities |-> << >>]

(* Time passes between two operations *)
Tick(instants) ==
    /\ task.op = "none"
    /\ \E t \in instants : t > now /\ now' = t
    /\ UNCHANGED <<cache, task, probe, returned, prev, ncalls, supplied, alertVars, summary, whaleVars, obtained>>

----------------------------------------------------------------------------
(* The state after construction of both services *)

Init ==
    /\ now = 0
    /\ cache = << >>
    /\ task = NoTask
    /\ probe = NoProbe
    /\ supplied = << >>
    /\ returned = NoCall
    /\ prev = NoCall
    /\ ncalls = 0
    /\ summary = NoSummary
    /\ alert_history = << >>
    /\ max_alerts_per_hour = 10
    /\ decisions = << >>
    /\ send_error = ""
    /\ senders = NoSenders
    /\ whale = NoWhale
    /\ obtained = << >>
    /\ stats = NoStats

(* Coin lists a caller may pass: every list of at most n of the symbols *)
Requests(symbols, n) == UNION { [1..k -> symbols] : k \in 0..n }

----------------------------------------------------------------------------
(* Spec: funding-rate and open-interest fetches against failing venues *)

FundingResponses ==
    { Raises, NoResponse, Dict(Null), Dict(Num(0)), Dict(Num(45)), Dict(Num(-600)) }

OpenInterestResponses ==
    { Raises, NoResponse, Dict(Null), Dict(Num(0)), Dict(Num(7 * Scale)) }

VenueRequests ==
    { << "BTC" >>, << "BTC", "ETH" >>, << "BTC:ETH" >>, << "BTC:ETH", "BTC" >> }

Next ==
    \/ \E op \in { "get_multi_coin_funding_rates", "get_multi_coin_open_interest" },
          coins \in VenueRequests :
            Call(op, coins, 0, MaxCalls)
    \/ Check
    \/ SkipCoin
    \/ FetchFundingRate(FundingResponses)
    \/ FetchOpenInterest(OpenInterestResponses)
    \/ Wake
    \/ Store
    \/ Return

Spec == Init /\ [][Next]_vars

----------------------------------------------------------------------------
(* SpecCache: the four cached fetch methods called repeatedly while time passes *)

CacheFundingResponses == { Raises, Dict(Num(45)) }

CacheOpenInterestResponses == { Raises, Dict(Num(7 * Scale)) }

CacheTickers ==
    { Ticker(Num(5), Null, Num(100)), Ticker(Num(5), Num(101), Num(101)) }

CacheRequests == { << "BTC" >>, << "FOO" >> }

(* The seconds at which the clock is read: inside the TTL, at the TTL, and one
   day and half a minute later *)
CacheInstants == { 30, 60, 86430 }

NextCache ==
    \/ \E op \in FetchOps, coins \in CacheRequests : Call(op, coins, 0, MaxCacheCalls)
    \/ Check
    \/ SkipCoin
    \/ FetchFundingRate(CacheFundingResponses)
    \/ FetchOpenInterest(CacheOpenInterestResponses)
    \/ FetchBasis(CacheTickers)
    \/ FetchTicker(CacheTickers)
    \/ Wake
    \/ Store
    \/ Return
    \/ Tick(CacheInstants)

SpecCache == Init /\ [][NextCache]_vars

----------------------------------------------------------------------------
(* SpecDetect: detect_funding_anomalies over funding rates around its thresholds *)

(* Raw rates 0.003, 0.006, -0.006, 0.01 and -0.012: 0.3, 0.6, -0.6, 1.0 and -1.2 percent *)
DetectResponses ==
    { Raises, Dict(Num(300)), Dict(Num(600)), Dict(Num(-600)), Dict(Num(1000)),
      Dict(Num(-1200)) }

DetectRequests == { << "BTC", "ETH", "SOL" >>, << "SOL", "ETH", "BTC" >> }

(* The default 0.5, the boundary 0.6, and a threshold below every absolute rate *)
Thresholds == { Scale \div 2, (6 * Scale) \div 10, -1 }

NextDetect ==
    \/ \E coins \in DetectRequests, threshold \in Thresholds :
          Call("detect_funding_anomalies", coins, threshold, MaxDetectCalls)
    \/ Check
    \/ FetchFundingRate(DetectResponses)
    \/ Wake
    \/ Store
    \/ Return

SpecDetect == Init /\ [][NextDetect]_vars

----------------------------------------------------------------------------
(* Claims about the funding-rate and open-interest fetches, checked under Spec *)

CoinsOf(coins) == { coins[j] : j \in 1..Len(coins) }

KeyedFetch(t) ==
    t.op \in { "get_multi_coin_funding_rates", "get_multi_coin_open_interest" }

(* A venue fails when it raises or returns no value; it succeeds when it
   returns a dict whose field is a number *)
Fails(r) == r.kind # "dict" \/ r.f.st # "num"
Succeeds(r) == r.kind = "dict" /\ r.f.st = "num"

(* What the fetch method of metric m makes of a venue's raw number *)
Normalized(m, x) == IF m = "funding_rates" THEN x * 100 ELSE x

ProbedFetch ==
    task.pc = "sleep" /\ probe.metric \in { "funding_rates", "open_interest" }

(* C1: the result of get_multi_coin_funding_rates and get_multi_coin_open_interest
   has exactly the requested coins that are in supported_coins as its keys, on a
   cache miss and on a cache hit alike. *)
C1_KeysAreRequestedSupported ==
    (task.pc = "done" /\ KeyedFetch(task))
        => DictKeys(task.result) = CoinsOf(task.coins) \cap supported_coins

(* C4: when binance fails and bybit succeeds for a coin, the value recorded for
   the coin is bybit's value (the funding rate times 100), whatever okx returns. *)
C4_SecondaryValueUsed ==
    (/\ ProbedFetch
     /\ Len(probe.resps) >= 2
     /\ Fails(probe.resps[1])
     /\ Succeeds(probe.resps[2]))
        => DictGet(task.acc, probe.coin) = Normalized(probe.metric, probe.resps[2].f.v)

(* C5: when every venue fails for a supported coin, the coin is recorded with
   the value 0.0, the values recorded for the other coins of the request stay
   as they were, and the returned mapping still holds the coin with 0.0. *)
C5_AllVenuesFailDefault ==
    /\ (/\ ProbedFetch
        /\ Len(probe.resps) = Len(exchanges)
        /\ \A k \in 1..Len(probe.resps) : Fails(probe.resps[k]))
           => /\ DictHas(task.acc, probe.coin)
              /\ DictGet(task.acc, probe.coin) = 0
              /\ \A c \in DictKeys(probe.before) \ {probe.coin} :
                    DictHas(task.acc, c) /\ DictGet(task.acc, c) = DictGet(probe.before, c)
    /\ (task.pc = "done" /\ KeyedFetch(task) /\ ~task.hit)
           => \A c \in CoinsOf(task.coins) \cap supported_coins :
                 /\ DictHas(task.result, c)
                 /\ DictHas(task.raw, c)
                 /\ DictGet(task.raw, c).st = "missing" => DictGet(task.result, c) = 0

(* C5 witness: all three venues failed for the second coin of a request whose
   first coin was recorded with a non-zero value *)
C5_Witness ==
    /\ ProbedFetch
    /\ Len(probe.resps) = Len(exchanges)
    /\ \A k \in 1..Len(probe.resps) : Fails(probe.resps[k])
    /\ probe.resps[1].kind = "raise"
    /\ probe.resps[2].kind = "none"
    /\ \E c \in DictKeys(probe.before) \ {probe.coin} : DictGet(probe.before, c) # 0

(* C6: the value recorded for a coin is the raw funding rate of the venue that
   supplied it, multiplied by 100 exactly once, whichever venue that is; and a
   returned funding-rate mapping, computed or served from the cache, holds for
   each coin 100 times the raw rate that was supplied for it. *)
C6_PercentOnce ==
    /\ (task.pc = "sleep" /\ probe.metric = "funding_rates"
            /\ Succeeds(probe.resps[Len(probe.resps)]))
           => DictGet(task.acc, probe.coin) = probe.resps[Len(probe.resps)].f.v * 100
    /\ (task.pc = "done" /\ task.op = "get_multi_coin_funding_rates")
           => \A c \in DictKeys(task.result) :
                 /\ DictHas(task.raw, c)
                 /\ DictGet(task.raw, c).st = "num"
                       => DictGet(task.result, c) = DictGet(task.raw, c).v * 100

(* C6 witness: a raw 0.00045 supplied by okx is served from the cache as 0.045 *)
C6_Witness ==
    /\ task.pc = "done"
    /\ task.op = "get_multi_coin_funding_rates"
    /\ task.hit
    /\ DictHas(task.result, "BTC")
    /\ DictGet(task.result, "BTC") = 4500
    /\ DictGet(task.raw, "BTC") = Num(45)
    /\ DictHas(task.result, "ETH")
    /\ DictGet(task.result, "ETH") = -60000

----------------------------------------------------------------------------
(* Claims about the TTL cache, checked under SpecCache *)

(* The last two completed operations are calls of the same fetch method with the
   same coin list, the second made less than the TTL after the first completed *)
RepeatedWithinTtl ==
    /\ returned.op \in FetchOps
    /\ prev.op = returned.op
    /\ prev.coins = returned.coins
    /\ returned.start - prev.time < cache_ttl

(* C2, as stated: the second of two sequential calls of the same fetch with the
   same coins, made less than the TTL after the first completed, contacts no
   venue and returns the first call's result. *)
C2_RepeatWithinTtlIsServed ==
    RepeatedWithinTtl => (returned.vcalls = 0 /\ returned.result = prev.result)

(* C2, amended: the same, when the first call was not itself served from the
   cache but fetched and stored its result. *)
C2_RepeatAfterMissIsServed ==
    (RepeatedWithinTtl /\ ~prev.hit)
        => (returned.vcalls = 0 /\ returned.result = prev.result)

(* C2 witness: a perpetual-data call that contacted the venues, repeated 30 s
   later and served from the cache *)
C2_Witness ==
    /\ RepeatedWithinTtl
    /\ returned.op = "get_perpetual_data"
    /\ ~prev.hit
    /\ prev.vcalls > 0
    /\ returned.hit
    /\ returned.start - prev.time = 30
    /\ DictHas(returned.result.funding_rates, "BTC")
    /\ DictGet(returned.result.funding_rates, "BTC") = 4500

(* C3: a cache entry is visible exactly while the full time elapsed since it
   was set is below the TTL; from the TTL on (also more than a day later)
   _get_cached_data returns None and no fetch is served from the entry. *)
C3_VisibleExactlyWithinTtl ==
    /\ \A key \in DOMAIN cache :
          IF now - cache[key].timestamp < cache_ttl
          THEN GetCachedData(key).some /\ GetCachedData(key).data = cache[key].data
          ELSE ~GetCachedData(key).some
    /\ (task.pc = "done" /\ task.hit) => task.hitAge < cache_ttl

----------------------------------------------------------------------------
(* Claims about detect_funding_anomalies, checked under SpecDetect.  When the
   operation is done, task.acc is the funding-rate mapping it iterated. *)

Detected == task.pc = "done" /\ task.op = "detect_funding_anomalies"

(* The position of coin c in the iteration order of mapping d *)
PositionIn(d, c) == CHOOSE j \in 1..Len(d) : d[j].coin = c

CoinSeq(anomalies) == [j \in 1..Len(anomalies) |-> anomalies[j].coin]

(* C7: an anomaly is emitted for a coin iff |rate| > threshold, strictly; each
   anomaly has severity HIGH iff |rate| > 1.0, else MEDIUM, and direction
   BULLISH iff rate > 0, else BEARISH. *)
C7_EmittedIffAboveThreshold ==
    Detected =>
        /\ \A c \in DictKeys(task.acc) :
              (Abs(DictGet(task.acc, c)) > task.threshold)
                  <=> (\E j \in 1..Len(task.result) : task.result[j].coin = c)
        /\ \A j \in 1..Len(task.result) :
              LET a == task.result[j]
              IN  /\ DictHas(task.acc, a.coin)
                  /\ a.funding_rate = DictGet(task.acc, a.coin)
                  /\ a.severity = (IF Abs(a.funding_rate) > Scale THEN "HIGH" ELSE "MEDIUM")
                  /\ a.direction = (IF a.funding_rate > 0 THEN "BULLISH" ELSE "BEARISH")
                  /\ \A k \in 1..Len(task.result) : task.result[k].coin = a.coin => k = j

(* C7 witness: {BTC: 0.3, ETH: -1.2, SOL: 0.6} with threshold 0.5 has been
   processed: BTC is left out, ETH is HIGH and BEARISH, SOL MEDIUM and BULLISH *)
C7_Witness ==
    /\ Detected
    /\ task.threshold = Scale \div 2
    /\ task.acc = << [coin |-> "BTC", val |-> 30000], [coin |-> "ETH", val |-> -120000],
                     [coin |-> "SOL", val |-> 60000] >>
    /\ Len(task.result) = 2
    /\ task.result[1].severity = "HIGH" /\ task.result[1].direction = "BEARISH"
    /\ task.result[2].severity = "MEDIUM" /\ task.result[2].direction = "BULLISH"

(* C8: the anomalies are in order of non-increasing |rate|, and anomalies of
   equal |rate| are in the iteration order of the funding-rate mapping; the
   mapping {BTC: 0.3, ETH: -1.2, SOL: 0.6} with threshold 0.5 gives [ETH, SOL]. *)
C8_DescendingAndStable ==
    Detected =>
        /\ \A j, k \in 1..Len(task.result) :
              j < k =>
                 /\ Abs(task.result[j].funding_rate) >= Abs(task.result[k].funding_rate)
                 /\ Abs(task.result[j].funding_rate) = Abs(task.result[k].funding_rate)
                       => PositionIn(task.acc, task.result[j].coin)
                            < PositionIn(task.acc, task.result[k].coin)
        /\ (/\ task.threshold = Scale \div 2
            /\ task.acc = << [coin |-> "BTC", val |-> 30000],
                             [coin |-> "ETH", val |-> -120000],
                             [coin |-> "SOL", val |-> 60000] >>)
              => CoinSeq(task.result) = << "ETH", "SOL" >>

(* C8 witness: two anomalies of equal absolute rate behind a larger one, the
   mapping being served from the cache in the order of an earlier request *)
C8_Witness ==
    /\ Detected
    /\ task.hit
    /\ task.coins = << "SOL", "ETH", "BTC" >>
    /\ task.acc = << [coin |-> "BTC", val |-> 60000], [coin |-> "ETH", val |-> -120000],
                     [coin |-> "SOL", val |-> -60000] >>
    /\ CoinSeq(task.result) = << "ETH", "BTC", "SOL" >>

----------------------------------------------------------------------------
(* EnhancedAlertsService: the rate limiter and the alert senders.  A record of
   alert_history is [type, timestamp]; decisions logs every return of
   should_send_alert with the history and the time it was called at. *)

MaxDecisions == 3      \* should_send_alert calls in one behaviour of SpecAlerts
MaxHistory == 2        \* records in the alert history a behaviour starts from

hour_window == 3600
duplicate_window == 900

RECURSIVE SelectRecords(_, _, _)
(* [alert for alert in history if (at - alert['timestamp']).seconds < window] *)
SelectRecords(history, at, window) ==
    IF history = << >> THEN << >>
    ELSE LET rest == SelectRecords(Tail(history), at, window)
         IN  IF TimedeltaSeconds(at - Head(history).timestamp) < window
             THEN << Head(history) >> \o rest
             ELSE rest

(* A pruning that also records the call as an alert *)
PrunedAndRecorded(history, at) ==
    Append(SelectRecords(history, at, hour_window), [type |-> "funding", timestamp |-> at])

(* The alert_history should_send_alert leaves behind *)
Pruned(history, at) == SelectRecords(history, at, hour_window)

(* The value should_send_alert returns *)
ShouldSendAlertValue(history, cap, at, alert_type) ==
    LET kept == Pruned(history, at)
    IN  /\ ~(Len(kept) >= cap)
        /\ \A j \in 1..Len(kept) :
              ~(/\ TimedeltaSeconds(at - kept[j].timestamp) < duplicate_window
                /\ kept[j].type = alert_type)

Decision(alert_type, caller) ==
    [type |-> alert_type, via |-> caller, time |-> now, before |-> alert_history,
     result |-> ShouldSendAlertValue(alert_history, max_alerts_per_hour, now, alert_type)]

(* should_send_alert(alert_type), called by the service's user *)
ShouldSendAlert(alert_type) ==
    /\ Len(decisions) < MaxDecisions
    /\ alert_history' = Pruned(alert_history, now)
    /\ decisions' = Append(decisions, Decision(alert_type, "should_send_alert"))
    /\ UNCHANGED <<now, derivVars, max_alerts_per_hour, send_error, senders, whaleVars, stats>>

(* send_funding_alert, send_whale_alert, send_liquidation_alert: when
   should_send_alert allows, self.EnhancedAlertsService raises AttributeError
   before the alert is recorded *)
SendAlert(alert_type) ==
    /\ Len(decisions) < MaxDecisions
    /\ alert_history' = Pruned(alert_history, now)
    /\ decisions' = Append(decisions, Decision(alert_type, "send_alert"))
    /\ send_error' = IF Decision(alert_type, "send_alert").result
                      THEN "AttributeError" ELSE ""
    /\ UNCHANGED <<now, derivVars, max_alerts_per_hour, senders, whaleVars, stats>>

SendFundingAlert == SendAlert("funding")
SendWhaleAlert == SendAlert("whale")
SendLiquidationAlert == SendAlert("liquidation")

----------------------------------------------------------------------------
(* SpecAlerts: the limiter over the histories and caps a user may give it *)

AlertTypes == { "funding", "whale" }
RecordInstants == { 0, 300 }
AlertInstants == { 900, 1200, 3600, 3900, 86410 }
Caps == { 1, 2, 10 }

(* Histories in the order of their timestamps, as appends produce them *)
Histories ==
    { h \in UNION { [1..n -> [type : AlertTypes, timestamp : RecordInstants]] :
                        n \in 0..MaxHistory } :
        \A j \in 1..Len(h) - 1 : h[j].timestamp <= h[j + 1].timestamp }

InitAlerts ==
    /\ now = 300
    /\ cache = << >>
    /\ task = NoTask
    /\ probe = NoProbe
    /\ supplied = << >>
    /\ returned = NoCall
    /\ prev = NoCall
    /\ ncalls = 0
    /\ summary = NoSummary
    /\ alert_history \in Histories
    /\ max_alerts_per_hour \in Caps
    /\ decisions = << >>
    /\ send_error = ""
    /\ senders = NoSenders
    /\ whale = NoWhale
    /\ obtained = << >>
    /\ stats = NoStats

NextAlerts ==
    \/ \E alert_type \in AlertTypes : ShouldSendAlert(alert_type)
    \/ SendFundingAlert
    \/ SendWhaleAlert
    \/ SendLiquidationAlert
    \/ Tick(AlertInstants)

SpecAlerts == InitAlerts /\ [][NextAlerts]_vars

----------------------------------------------------------------------------
(* Claims about the rate limiter, checked under SpecAlerts *)

(* The number of records of h that match *)
RECURSIVE CountYounger(_, _, _, _)
CountYounger(h, at, window, types) ==
    IF h = << >> THEN 0
    ELSE (IF at - Head(h).timestamp < window /\ Head(h).type \in types THEN 1 ELSE 0)
            + CountYounger(Tail(h), at, window, types)

AllTypes == { "funding", "whale", "liquidation" }

(* C9: should_send_alert(t) returns true iff fewer than max_alerts_per_hour
   records are younger than 3600 s and no record of type t is younger than
   900 s, a record's age being the full time elapsed since its timestamp. *)
C9_AllowedIffUnderCapAndNoDuplicate ==
    \A j \in 1..Len(decisions) :
        LET d == decisions[j]
        IN  d.result <=>
               /\ CountYounger(d.before, d.time, hour_window, AllTypes) < max_alerts_per_hour
               /\ CountYounger(d.before, d.time, duplicate_window, {d.type}) = 0

(* C10: with max_alerts_per_hour = 2 and an empty history, three consecutive
   should_send_alert('funding') calls inside one hour return true, false, false. *)
C10_ThirdCallDenied ==
    (/\ max_alerts_per_hour = 2
     /\ Len(decisions) = 3
     /\ decisions[1].before = << >>
     /\ \A j \in 1..3 : decisions[j].type = "funding"
     /\ decisions[3].time - decisions[1].time < hour_window)
        => /\ decisions[1].result
           /\ ~decisions[2].result
           /\ ~decisions[3].result

(* C11: when should_send_alert allows, a send_*_alert call propagates no error
   of a transport and has appended exactly one record of the alert's type to
   alert_history when it returns. *)
C11_AllowedSendRecordsAlert ==
    LET n == Len(decisions)
    IN  (n > 0 /\ decisions[n].via = "send_alert" /\ decisions[n].result)
            => /\ send_error = ""
               /\ alert_history =
                     Append(Pruned(decisions[n].before, decisions[n].time),
                            [type |-> decisions[n].type, timestamp |-> decisions[n].time])

----------------------------------------------------------------------------
(* SpecBasis: get_basis_data over binance tickers whose last price is missing,
   null, zero, negative or positive *)

MaxBasisCalls == 2     \* operations started in one behaviour of SpecBasis

BasisTickers ==
    { TickerRaises, TickerNone }
        \cup { Ticker(Missing, Missing, last) :
                 last \in { Missing, Null, Num(0), Num(-100), Num(100), Num(101) } }

BasisRequests == { << "BTC" >>, << "ETH", "BTC" >> }

NextBasis ==
    \/ \E coins \in BasisRequests : Call("get_basis_data", coins, 0, MaxBasisCalls)
    \/ Check
    \/ FetchBasis(BasisTickers)
    \/ Wake
    \/ Store
    \/ Return

SpecBasis == Init /\ [][NextBasis]_vars

(* A price is usable when its ticker came back with a positive number as last *)
PriceUsable(ticker) ==
    ticker.kind = "dict" /\ ticker.last.st = "num" /\ ticker.last.v > 0

(* C12: _calculate_basis_for_coin returns 0.0 whenever the futures or the spot
   price is unavailable, zero or negative, and (futures - spot) / spot * 100
   otherwise. *)
C12_BasisZeroUnlessBothPositive ==
    (task.pc = "sleep" /\ probe.metric = "basis_data")
        => LET fut == probe.resps[1]
           IN  IF PriceUsable(fut) /\ Len(probe.resps) = 2 /\ PriceUsable(probe.resps[2])
               THEN probe.value =
                       ((fut.last.v - probe.resps[2].last.v) * 100 * Scale)
                           \div probe.resps[2].last.v
               ELSE probe.value = 0

----------------------------------------------------------------------------
(* SpecKeys: every fetch over coin lists that are permutations of each other or
   differ in an unsupported symbol, all inside one TTL *)

MaxKeyCalls == 2       \* operations started in one behaviour of SpecKeys

KeyRequests ==
    { << "BTC", "ETH" >>, << "ETH", "BTC" >>, << "BTC", "FOO" >>, << "BTC" >>,
      << "FOO" >> }

NextKeys ==
    \/ \E op \in FetchOps, coins \in KeyRequests : Call(op, coins, 0, MaxKeyCalls)
    \/ Check
    \/ SkipCoin
    \/ FetchFundingRate(CacheFundingResponses)
    \/ FetchOpenInterest(CacheOpenInterestResponses)
    \/ FetchBasis(CacheTickers)
    \/ FetchTicker(CacheTickers)
    \/ Wake
    \/ Store
    \/ Return

SpecKeys == Init /\ [][NextKeys]_vars

(* The supported coins of a request, in the order of the request *)
Supported(coins) == SelectSeq(coins, LAMBDA c : c \in supported_coins)

(* Two fetches of the same metric have completed one after the other, the
   second started less than the TTL after the first completed *)
SameFetchTwice ==
    /\ returned.op \in FetchOps
    /\ prev.op = returned.op
    /\ returned.start - prev.time < cache_ttl

(* The coin lists a and b hold the same symbols the same number of times *)
IsPermutation(a, b) ==
    /\ Len(a) = Len(b)
    /\ \A c \in CoinsOf(a) \cup CoinsOf(b) :
          Cardinality({ j \in 1..Len(a) : a[j] = c })
              = Cardinality({ j \in 1..Len(b) : b[j] = c })

(* C14: two requests for the same metric whose coin lists are permutations of
   each other have the same cache key; the second within the TTL contacts no
   venue, returns the first one's result and creates no second cache entry. *)
C14_PermutationsShareEntry ==
    (SameFetchTwice /\ IsPermutation(prev.coins, returned.coins))
        => /\ GetCacheKey(EntryMetric(returned.op), Sorted(prev.coins))
                 = GetCacheKey(EntryMetric(returned.op), Sorted(returned.coins))
           /\ returned.vcalls = 0
           /\ returned.result = prev.result
           /\ \A c \in KeyRequests :
                 (IsPermutation(c, returned.coins)
                    /\ GetCacheKey(EntryMetric(returned.op), Sorted(c)) \in DOMAIN cache)
                   => GetCacheKey(EntryMetric(returned.op), Sorted(c))
                         = GetCacheKey(EntryMetric(returned.op), Sorted(prev.coins))

(* C14 witness: funding rates of [BTC, ETH] fetched from the venues, then
   [ETH, BTC] served from the one entry *)
C14_Witness ==
    /\ SameFetchTwice
    /\ prev.coins = << "BTC", "ETH" >>
    /\ returned.coins = << "ETH", "BTC" >>
    /\ returned.op = "get_multi_coin_funding_rates"
    /\ prev.vcalls > 0
    /\ returned.hit
    /\ DOMAIN cache = { "funding_rates:BTC:ETH" }

(* C17: two requests for the same metric whose coin lists differ only in
   unsupported symbols use the same cache entry; the second within the TTL is
   served from the cache without remote calls. *)
C17_UnsupportedSymbolsShareEntry ==
    (SameFetchTwice /\ IsPermutation(Supported(prev.coins), Supported(returned.coins)))
        => /\ returned.vcalls = 0
           /\ returned.result = prev.result

----------------------------------------------------------------------------
(* A claim about the order of the venues, checked under Spec *)

(* C16: for each coin the venues are tried in the order binance, bybit, okx;
   the first venue that returns a non-null value, the value 0 included, ends
   the walk: its value is recorded and no later venue is called. *)
C16_FirstNonNullVenueEndsWalk ==
    ProbedFetch =>
        LET n == Len(probe.resps)
        IN  /\ n >= 1
            /\ \A k \in 1..(n - 1) : Fails(probe.resps[k])
            /\ Fails(probe.resps[n]) => (n = Len(exchanges) /\ probe.value = 0)
            /\ Succeeds(probe.resps[n])
                  => probe.value = Normalized(probe.metric, probe.resps[n].f.v)

----------------------------------------------------------------------------
(* More claims about the rate limiter, checked under SpecAlerts *)

(* The alerts that passed the limiter inside send_*_alert calls from time at on,
   less than window later *)
PassedFrom(at, window) ==
    { k \in 1..Len(decisions) :
         /\ decisions[k].via = "send_alert"
         /\ decisions[k].result
         /\ decisions[k].time >= at
         /\ decisions[k].time - at < window }

(* C15: after any sequence of send_*_alert calls at arbitrary times, the alerts
   that passed the rate limiter are recorded, and no more than
   max_alerts_per_hour of them fall within any window of 3600 seconds. *)
C15_PassedPerHourWithinCap ==
    \A j \in 1..Len(decisions) :
        Cardinality(PassedFrom(decisions[j].time, hour_window)) <= max_alerts_per_hour

(* C18: immediately after a should_send_alert call made at time now, every
   record left in alert_history has now - timestamp < 3600 s, whatever the ages
   of the records before the call. *)
C18_OnlyYoungRecordsRemain ==
    (Len(decisions) > 0 /\ decisions[Len(decisions)].time = now)
        => \A j \in 1..Len(alert_history) :
              now - alert_history[j].timestamp < hour_window

----------------------------------------------------------------------------
(* SpecRace: two send_*_alert coroutines of one alert type run by one
   asyncio.gather.  A coroutine runs from its start to its first suspension or
   to its end without interleaving; a send_*_alert coroutine reaches neither
   await: the attribute lookup in front of it raises. *)

(* asyncio.gather(send(...), send(...)): both coroutines are scheduled *)
GatherSends(alert_type) ==
    /\ senders = NoSenders
    /\ Len(decisions) + 2 <= MaxDecisions
    /\ senders' = << [type |-> alert_type, pc |-> "pending", passed |-> FALSE],
                     [type |-> alert_type, pc |-> "pending", passed |-> FALSE] >>
    /\ UNCHANGED <<now, derivVars, alert_history, max_alerts_per_hour, decisions,
                   send_error, whaleVars, stats>>

(* The event loop runs scheduled coroutine s: should_send_alert, the message
   format, then self.EnhancedAlertsService raises AttributeError *)
RunSender(s) ==
    /\ s \in 1..Len(senders)
    /\ senders[s].pc = "pending"
    /\ LET d == Decision(senders[s].type, "send_alert")
       IN  /\ alert_history' = Pruned(alert_history, now)
           /\ decisions' = Append(decisions, d)
           /\ send_error' = IF d.result THEN "AttributeError" ELSE ""
           /\ senders' = [senders EXCEPT ![s].passed = d.result,
                                         ![s].pc = IF d.result THEN "raised"
                                                   ELSE "returned"]
    /\ UNCHANGED <<now, derivVars, max_alerts_per_hour, whaleVars, stats>>

NextRace ==
    \/ \E alert_type \in AlertTypes : GatherSends(alert_type)
    \/ \E s \in 1..2 : RunSender(s)
    \/ Tick(AlertInstants)

SpecRace == InitAlerts /\ [][NextRace]_vars

(* C19: with two concurrent send calls of one alert type, both pass
   should_send_alert before either has appended its record, and both proceed
   to deliver the alert. *)
C19_BothPassBothDeliver ==
    (/\ Len(senders) = 2
     /\ senders[1].passed
     /\ senders[2].passed)
        => /\ senders[1].pc = "delivering"
           /\ senders[2].pc = "delivering"
           /\ send_error = ""

----------------------------------------------------------------------------
(* A claim about the effects of detect_funding_anomalies, checked under SpecDetect *)

(* C20: a call to detect_funding_anomalies performs no remote venue call and
   leaves the cache unchanged. *)
C20_DetectionTouchesNothing ==
    [][(task.op = "detect_funding_anomalies" /\ task'.op = "detect_funding_anomalies")
          => (cache' = cache /\ task'.vcalls = task.vcalls)]_vars

----------------------------------------------------------------------------
(* SpecSummary: get_market_summary, each of its four fetches returning or raising *)

MaxSummaryCalls == 1   \* operations started in one behaviour of SpecSummary

SummaryRequests == { << "BTC" >>, << "BTC", "FOO" >> }

NextSummary ==
    \/ \E coins \in SummaryRequests : CallSummary(coins, MaxSummaryCalls)
    \/ Resume
    \/ Check
    \/ SubRaise
    \/ SkipCoin
    \/ FetchFundingRate(CacheFundingResponses)
    \/ FetchOpenInterest(CacheOpenInterestResponses)
    \/ FetchBasis(CacheTickers)
    \/ FetchTicker(CacheTickers)
    \/ Yield
    \/ Store
    \/ Finish
    \/ Assemble
    \/ ReturnSummary

SpecSummary == Init /\ [][NextSummary]_vars

SummaryKeys ==
    { "funding_rates", "open_interest", "perpetual_data", "basis_data", "timestamp" }

(* The value the record must hold for gathered coroutine k *)
Expected(k, default) ==
    IF summary.outcome[k].st = "exception" THEN default
    ELSE summary.parked[k].result

(* C13: get_market_summary returns a record with the keys funding_rates,
   open_interest, perpetual_data, basis_data and timestamp for every subset of
   its four fetches that fails; each failed metric is replaced by its empty
   default and each successful metric keeps its fetched result. *)
C13_SummarySubstitutesFailures ==
    summary.pc = "done" =>
        /\ \A k \in 1..Len(SummaryOps) : summary.outcome[k].st \in { "value", "exception" }
        /\ DOMAIN summary.result = SummaryKeys
        /\ summary.result.funding_rates = Expected(1, EmptyDict)
        /\ summary.result.open_interest = Expected(2, EmptyDict)
        /\ summary.result.perpetual_data = Expected(3, PerpDefault)
        /\ summary.result.basis_data = Expected(4, EmptyDict)
        /\ summary.result.timestamp = now

(* C13 witness: the funding and the perpetual-data fetch raised, open interest
   and basis returned their values for BTC *)
C13_Witness ==
    /\ summary.pc = "done"
    /\ summary.outcome[1].st = "exception"
    /\ summary.outcome[2].st = "value"
    /\ summary.outcome[3].st = "exception"
    /\ summary.outcome[4].st = "value"
    /\ summary.result.funding_rates = EmptyDict
    /\ summary.result.perpetual_data = PerpDefault
    /\ summary.result.open_interest = << [coin |-> "BTC", val |-> 7 * Scale] >>
    /\ DictHas(summary.result.basis_data, "BTC")

----------------------------------------------------------------------------
(* Claims about the loops over the coins *)

(* C21: on a cache miss every metric fetch sleeps after a supported coin's
   venue attempts before the next coin's venue calls begin: no step leads from
   the venue attempts for one coin straight to those for another coin. *)
C21_DelayBetweenCoins ==
    [][~(/\ probe.metric # ""
         /\ probe'.metric = probe.metric
         /\ probe'.coin # probe.coin)]_vars


----------------------------------------------------------------------------
(* SpecOrder: every fetch over a request longer than one batch, with an
   unsupported symbol in it *)

MaxOrderCalls == 1     \* operations started in one behaviour of SpecOrder

OrderRequests ==
    { << "SOL", "BTC", "FOO", "ETH", "XRP", "ADA", "DOGE" >>, << "ETH", "FOO", "BTC" >> }

OrderFundingResponses == { Dict(Num(45)) }
OrderOpenInterestResponses == { Dict(Num(7 * Scale)) }
OrderTickers == { Ticker(Num(5), Num(101), Num(101)) }

NextOrder ==
    \/ \E op \in FetchOps, coins \in OrderRequests : Call(op, coins, 0, MaxOrderCalls)
    \/ Check
    \/ SkipCoin
    \/ FetchFundingRate(OrderFundingResponses)
    \/ FetchOpenInterest(OrderOpenInterestResponses)
    \/ FetchBasis(OrderTickers)
    \/ FetchTicker(OrderTickers)
    \/ Wake
    \/ Store
    \/ Return

SpecOrder == Init /\ [][NextOrder]_vars

(* The coins the running loop has recorded so far, in the order it recorded them *)
Processed ==
    IF task.metric = "ticker" THEN CoinSeq(task.data.volume_24h) ELSE CoinSeq(task.acc)

(* C22: within one metric fetch on a cache miss the supported coins are
   processed in the order of the request, across the batches of 5 as well, and
   no venue is called for an unsupported coin. *)
C22_CallerOrderKept ==
    (probe.metric # "" /\ task.pc \in { "loop", "sleep" })
        => /\ probe.coin \in supported_coins
           /\ Len(Processed) >= 1
           /\ Len(Processed) <= Len(Supported(task.coins))
           /\ Processed = SubSeq(Supported(task.coins), 1, Len(Processed))
           /\ probe.coin = Processed[Len(Processed)]

(* C22 witness: the funding fetch has reached the last coin of its second
   batch, the unsupported FOO left out *)
C22_Witness ==
    /\ task.op = "get_multi_coin_funding_rates"
    /\ task.pc = "sleep"
    /\ probe.coin = "DOGE"
    /\ CoinSeq(task.acc) = << "SOL", "BTC", "ETH", "XRP", "ADA", "DOGE" >>


----------------------------------------------------------------------------
(* WhaleTrackerService.generate_realistic_whale_data.  Prices are in cents,
   values in dollars, sizes in coins, durations in seconds.  The random draws
   of one loop iteration are an input record. *)

MaxWhaleCount == 2     \* the largest count generate_realistic_whale_data is called with

(* list(ActivityType) *)
ActivityTypes ==
    << "Open Long", "Open Short", "Close Long", "Close Short", "Add to Long",
       "Add to Short", "Reduce Long", "Reduce Short", "Liquidation", "Large Buy",
       "Large Sell", "Large Transfer" >>

(* activity_weights, in hundredths *)
activity_weights == << 25, 15, 25, 15, 10, 5, 3, 2 >>

(* self.current_prices.get(symbol, 100), in cents *)
PriceOf(symbol) ==
    CASE symbol = "BTC" -> 6750000
      [] symbol = "ETH" -> 385000
      [] symbol = "SOL" -> 16500
      [] symbol = "MATIC" -> 65
      [] OTHER -> 10000

(* The ends of the range random.uniform draws the position size from *)
SizeRange(symbol) ==
    CASE symbol = "BTC" -> { 10, 500 }
      [] symbol = "ETH" -> { 100, 2000 }
      [] symbol = "SOL" -> { 1000, 50000 }
      [] OTHER -> { 10000, 500000 }

significant_value == 100000

(* size * price in dollars, for a price in cents *)
ValueOf(size, price) == size * (price \div 100) + (size * (price % 100)) \div 100

(* np.random.choice(a, p=p): 'a' and 'p' must have the same size *)
NpRandomChoice(a, p, pick) ==
    IF Len(a) # Len(p) THEN [raised |-> TRUE, value |-> ""]
    ELSE [raised |-> FALSE, value |-> a[pick]]

(* One iteration of the loop: the activity it appends, or the raise *)
WhaleIteration(base_time, d) ==
    LET price == PriceOf(d.symbol)
        value == ValueOf(d.size, price)
        small == value < significant_value
        activity == NpRandomChoice(ActivityTypes, activity_weights, d.pick)
    IN  [raised |-> activity.raised,
         timestamp |-> base_time - (d.hours + d.minutes),
         symbol |-> d.symbol,
         activity |-> activity.value,
         position_size |-> IF small THEN (d.refill * 100) \div price ELSE d.size,
         estimated_value |-> IF small THEN d.refill ELSE value]

(* activities.sort(key=lambda x: x.timestamp, reverse=True): x goes behind the
   activities that are at least as new *)
RECURSIVE InsertNewestFirst(_, _)
InsertNewestFirst(s, x) ==
    IF s = << >> THEN << x >>
    ELSE IF x.timestamp > Head(s).timestamp THEN << x >> \o s
    ELSE << Head(s) >> \o InsertNewestFirst(Tail(s), x)

RECURSIVE NewestFirst(_)
NewestFirst(activities) ==
    IF activities = << >> THEN << >>
    ELSE InsertNewestFirst(NewestFirst(SubSeq(activities, 1, Len(activities) - 1)),
                           activities[Len(activities)])

(* The loop from iteration i on: the activities appended, or the raise that
   ends the call, and the draws consumed *)
RECURSIVE WhaleLoop(_, _, _, _)
WhaleLoop(base_time, draws, i, acc) ==
    IF i > Len(draws)
    THEN [status |-> "returned", activities |-> NewestFirst(acc), drawn |-> draws]
    ELSE LET a == WhaleIteration(base_time, draws[i])
         IN  IF a.raised
             THEN [status |-> "ValueError", activities |-> << >>,
                   drawn |-> SubSeq(draws, 1, i)]
             ELSE WhaleLoop(base_time, draws, i + 1, Append(acc, a))

(* The draws one iteration may make for the coins *)
DrawsFor(coins) ==
    UNION { [hours : { 0, 24 * 3600 }, minutes : { 0, 59 * 60 }, symbol : { c },
             size : SizeRange(c), refill : { significant_value, 50 * significant_value },
             pick : { 1, Len(activity_weights) }] : c \in { coins[j] : j \in 1..Len(coins) } }

(* generate_realistic_whale_data(coins, count) *)
GenerateRealisticWhaleData(coins, count) ==
    /\ whale.status = "idle"
    /\ \E draws \in [1..count -> DrawsFor(coins)] :
          LET r == WhaleLoop(now, draws, 1, << >>)
          IN  whale' = [status |-> r.status, coins |-> coins, count |-> count,
                        base_time |-> now, drawn |-> r.drawn, activities |-> r.activities]
    /\ UNCHANGED <<now, derivVars, alertVars>>

(* The caller is done with the outcome *)
ForgetWhale ==
    /\ whale.status # "idle"
    /\ whale' = NoWhale
    /\ UNCHANGED <<now, derivVars, alertVars>>

WhaleRequests == { << "BTC" >>, << "MATIC", "BTC" >>, << "XYZ" >> }

WhaleInstants == { 100000, 200000 }

NextWhale ==
    \/ \E coins \in WhaleRequests, count \in 0..MaxWhaleCount :
          GenerateRealisticWhaleData(coins, count)
    \/ ForgetWhale
    \/ Tick(WhaleInstants)

SpecWhale == Init /\ [][NextWhale]_vars

lookback_window == 24 * 3600

(* C23: generate_realistic_whale_data(coins, count) with non-empty coins
   returns exactly count activities, newest first, each with a timestamp
   inside the 24 hours before the call, a non-negative position size and an
   estimated value of at least 100000. *)
C23_WhaleActivitiesWellFormed ==
    (whale.status # "idle" /\ whale.coins # << >>)
        => /\ whale.status = "returned"
           /\ Len(whale.activities) = whale.count
           /\ \A j \in 1..Len(whale.activities) :
                 LET a == whale.activities[j]
                 IN  /\ a.timestamp <= whale.base_time
                     /\ whale.base_time - a.timestamp <= lookback_window
                     /\ a.position_size >= 0
                     /\ a.estimated_value >= significant_value
                     /\ j < Len(whale.activities)
                           => a.timestamp >= whale.activities[j + 1].timestamp


----------------------------------------------------------------------------
(* SpecClear: fetches of every metric around clear_cache *)

MaxClearCalls == 3

ClearRequests == { << "BTC" >>, << "FOO" >> }

ClearInstants == { 30, 60 }

NextClear ==
    \/ \E op \in FetchOps, coins \in ClearRequests : Call(op, coins, 0, MaxClearCalls)
    \/ ClearCache(MaxClearCalls)
    \/ Check
    \/ SkipCoin
    \/ FetchFundingRate(CacheFundingResponses)
    \/ FetchOpenInterest(OrderOpenInterestResponses)
    \/ FetchBasis(OrderTickers)
    \/ FetchTicker(OrderTickers)
    \/ Wake
    \/ Store
    \/ Return
    \/ Tick(ClearInstants)

SpecClear == Init /\ [][NextClear]_vars

(* A fetch has its result ready and the last operation completed before it
   started was clear_cache *)
FirstFetchAfterClear ==
    /\ task.pc = "done"
    /\ task.op \in FetchOps
    /\ returned.op = "clear_cache"

HasSupported(coins) == \E i \in 1..Len(coins) : coins[i] \in supported_coins

(* C24, as stated: the next fetch of any metric for any coin list after
   clear_cache is a cache miss that issues remote calls. *)
C24_FetchAfterClearCallsVenues ==
    FirstFetchAfterClear => (~task.hit /\ task.vcalls > 0)

(* C24, amended: the next fetch of any metric after clear_cache is never served
   from the cache, however recently the entry had been set, and it issues
   remote calls whenever its coin list holds a supported coin. *)
C24_FetchAfterClearMisses ==
    FirstFetchAfterClear
        => (/\ ~task.hit
            /\ HasSupported(task.coins) => task.vcalls > 0)

(* C24 witness: perpetual data fetched and stored, the cache cleared within the
   TTL, and the same fetch repeated at once contacting the venues again *)
C24_Witness ==
    /\ FirstFetchAfterClear
    /\ task.op = "get_perpetual_data"
    /\ task.coins = << "BTC" >>
    /\ prev.op = task.op
    /\ prev.coins = task.coins
    /\ ~prev.hit
    /\ task.start - prev.time < cache_ttl
    /\ ~task.hit
    /\ task.vcalls > 0
    /\ cache # << >>


----------------------------------------------------------------------------
(* SpecMark: get_perpetual_data over tickers whose 'mark' and 'last' fields are
   numbers, None or missing, and over failing venues *)

MaxMarkCalls == 1

MarkRequests == { << "BTC" >>, << "FOO", "ETH" >>, << "SOL", "BTC" >> }

MarkTickers ==
    { Raises,
      Ticker(Num(5), Num(101), Num(100)),
      Ticker(Num(5), Null, Num(100)),
      Ticker(Num(5), Missing, Num(100)),
      Ticker(Num(5), Missing, Missing) }

NextMark ==
    \/ \E coins \in MarkRequests : Call("get_perpetual_data", coins, 0, MaxMarkCalls)
    \/ Check
    \/ SkipCoin
    \/ FetchFundingRate(OrderFundingResponses)
    \/ FetchOpenInterest(OrderOpenInterestResponses)
    \/ FetchTicker(MarkTickers)
    \/ Wake
    \/ Store
    \/ Return

SpecMark == Init /\ [][NextMark]_vars

(* The mark price the claim describes for the venue responses of one coin: the
   first responding venue's mark when it is a number, else that venue's last
   price, and 0 when every venue failed *)
ExpectedMark(resps) ==
    LET r == resps[Len(resps)]
    IN  IF r.kind # "dict" THEN Num(0)
        ELSE IF r.mark.st = "num" THEN r.mark
        ELSE IF r.last.st = "num" THEN r.last
        ELSE Num(0)

(* C29: the mark price recorded for a supported coin is a number: the first
   responding venue's mark when non-null, that venue's last price when mark is
   null or missing, and 0 when every venue fails. *)
C29_MarkPriceIsNumber ==
    (probe.metric = "ticker")
        => LET v == DictGet(task.data.mark_prices, probe.coin)
           IN  /\ v.st = "num"
               /\ v = ExpectedMark(probe.resps)


----------------------------------------------------------------------------
(* SpecPerp: get_perpetual_data after fetches that left funding rates or open
   interest in the cache *)

MaxPerpCalls == 2

PerpRequests == { << "BTC", "ETH" >>, << "BTC:ETH" >>, << "FOO", "BTC" >> }

NextPerp ==
    \/ \E op \in { "get_multi_coin_funding_rates", "get_multi_coin_open_interest",
                   "get_perpetual_data" },
          coins \in PerpRequests :
            Call(op, coins, 0, MaxPerpCalls)
    \/ Check
    \/ SkipCoin
    \/ FetchFundingRate(OrderFundingResponses)
    \/ FetchOpenInterest(CacheOpenInterestResponses)
    \/ FetchTicker(OrderTickers)
    \/ Wake
    \/ Store
    \/ Return

SpecPerp == Init /\ [][NextPerp]_vars

(* C25: in every result of get_perpetual_data the five sub-mappings have the
   same key set, the requested coins that are in supported_coins, also when
   funding_rates or open_interest came from entries cached by earlier calls. *)
C25_SubMappingsShareKeys ==
    (task.pc = "done" /\ task.op = "get_perpetual_data")
        => LET keys == CoinsOf(task.coins) \cap supported_coins
           IN  /\ DictKeys(task.result.funding_rates) = keys
               /\ DictKeys(task.result.open_interest) = keys
               /\ DictKeys(task.result.volume_24h) = keys
               /\ DictKeys(task.result.mark_prices) = keys
               /\ DictKeys(task.result.next_funding_time) = keys


----------------------------------------------------------------------------
(* Claim about the coroutines of one get_market_summary, checked under
   SpecSummary *)

(* Another coroutine of the gather has already queried the venues for the
   metric and coin the running coroutine has just queried *)
QueriedByAnother(metric, coin) ==
    \E k \in (1..Len(summary.parked)) \ {summary.cur} :
        /\ summary.parked[k].metric = metric
        /\ DictHas(summary.parked[k].acc, coin)

(* C26: during one get_market_summary with a cold cache the funding-rate and
   the open-interest call sequences run at most once: the coroutines gathered
   together never both query the venues for the same coin's funding rate (or
   open interest). *)
C26_FundingSequenceOnce ==
    (/\ summary.pc = "gather"
     /\ summary.cur # 0
     /\ task.pc = "sleep"
     /\ probe.metric \in { "funding_rates", "open_interest" })
        => ~QueriedByAnother(probe.metric, probe.coin)


----------------------------------------------------------------------------
(* SpecStale: funding-rate and perpetual-data fetches spread over time, the
   bundle cache of get_perpetual_data nested over the per-metric caches *)

MaxStaleCalls == 3

StaleRequests == { << "BTC" >> }

StaleInstants == { 30, 80 }

NextStale ==
    \/ \E op \in { "get_multi_coin_funding_rates", "get_multi_coin_open_interest",
                   "get_perpetual_data" },
          coins \in StaleRequests :
            Call(op, coins, 0, MaxStaleCalls)
    \/ Check
    \/ FetchFundingRate(OrderFundingResponses)
    \/ FetchOpenInterest(OrderOpenInterestResponses)
    \/ FetchTicker(OrderTickers)
    \/ Wake
    \/ Store
    \/ Return
    \/ Tick(StaleInstants)

SpecStale == Init /\ [][NextStale]_vars

(* C27: every funding-rate and open-interest value in a result of
   get_perpetual_data was fetched from a venue less than one TTL before the
   result is returned, after any sequence of fetches at arbitrary times. *)
C27_ValuesYoungerThanTtl ==
    (task.pc = "done" /\ task.op = "get_perpetual_data" /\ task.asof # Never)
        => now - task.asof < cache_ttl


----------------------------------------------------------------------------
(* SpecAlias: callers that modify the mapping a fetch returned.  _set_cache
   stores the mapping object itself and every return statement hands out that
   same object, so the caller's mapping and the cache entry are one object. *)

MaxAliasCalls == 2

AliasRequests == { << "BTC" >>, << "ETH", "BTC" >> }

AliasInstants == { 30 }

(* What a caller may write into the mapping: a changed rate for a coin, a
   coin that was never fetched *)
AliasWrites == { [coin |-> "BTC", val |-> 99900], [coin |-> "XRP", val |-> 100] }

DictRemove(d, c) == SelectSeq(d, LAMBDA e : e.coin # c)

(* The caller of the last completed fetch modifies the mapping it was given:
   result[c] = v, or del result[c] *)
CallerModifies ==
    /\ task.op = "none"
    /\ returned.op = "get_multi_coin_funding_rates"
    /\ LET key == GetCacheKey("funding_rates", Sorted(returned.coins))
       IN  /\ key \in DOMAIN cache
           /\ \E result \in { DictPut(returned.result, w.coin, w.val) : w \in AliasWrites }
                            \cup { DictRemove(returned.result, c) :
                                      c \in DictKeys(returned.result) } :
                 /\ result # returned.result
                 /\ returned' = [returned EXCEPT !.result = result]
                 /\ cache' = [cache EXCEPT ![key].data = result]
    /\ UNCHANGED <<now, task, probe, prev, ncalls, supplied, alertVars, summary, whaleVars,
                   obtained>>

NextAlias ==
    \/ \E coins \in AliasRequests :
          Call("get_multi_coin_funding_rates", coins, 0, MaxAliasCalls)
    \/ Check
    \/ FetchFundingRate(OrderFundingResponses)
    \/ Wake
    \/ Store
    \/ Return
    \/ CallerModifies
    \/ Tick(AliasInstants)

SpecAlias == Init /\ [][NextAlias]_vars

(* C28: a cached result is isolated from its callers: whatever a caller did to
   the mapping a fetch returned, a later fetch served from the cache returns
   the values originally fetched from the venues, for exactly the coins they
   were fetched for. *)
C28_CachedResultIsolated ==
    (task.pc = "done" /\ task.op = "get_multi_coin_funding_rates" /\ task.hit)
        => /\ DictKeys(task.result) = DictKeys(task.raw)
           /\ \A c \in DictKeys(task.result) :
                 DictGet(task.result, c) = DictGet(task.raw, c).v * 100


----------------------------------------------------------------------------
(* SpecStats: the limiter and get_alert_stats over the histories a user may
   give them *)

(* alert_counts: for alert in recent_alerts:
       alert_counts[alert_type] = alert_counts.get(alert_type, 0) + 1 *)
AlertCounts(recent) ==
    [t \in { recent[j].type : j \in 1..Len(recent) } |->
        Cardinality({ j \in 1..Len(recent) : recent[j].type = t })]

(* get_alert_stats(): statistics of the records of the last hour; the history
   is only read *)
GetAlertStats ==
    /\ stats' = LET recent_alerts == SelectRecords(alert_history, now, hour_window)
                IN  [called |-> TRUE, at |-> now,
                     total_alerts_last_hour |-> Len(recent_alerts),
                     alerts_by_type |-> AlertCounts(recent_alerts),
                     rate_limit_status |-> << Len(recent_alerts), max_alerts_per_hour >>,
                     last_alert |-> IF recent_alerts # << >>
                                    THEN Num(recent_alerts[Len(recent_alerts)].timestamp)
                                    ELSE Null]
    /\ UNCHANGED <<now, derivVars, alert_history, max_alerts_per_hour, decisions,
                   send_error, senders, whaleVars>>

StatsInstants == { 900, 3600, 86410 }

NextStats ==
    \/ \E alert_type \in AlertTypes : ShouldSendAlert(alert_type)
    \/ GetAlertStats
    \/ Tick(StatsInstants)

SpecStats == InitAlerts /\ [][NextStats]_vars

(* The records of h at the positions S, in their order *)
RECURSIVE AtPositions(_, _, _)
AtPositions(h, S, j) ==
    IF j > Len(h) THEN << >>
    ELSE IF j \in S THEN << h[j] >> \o AtPositions(h, S, j + 1)
    ELSE AtPositions(h, S, j + 1)

(* after comes from before by dropping records, each of them at least an hour
   old at the time at: nothing is added *)
OnlyExpiredRemoved(before, after, at) ==
    \E S \in SUBSET (1..Len(before)) :
        /\ after = AtPositions(before, S, 1)
        /\ \A j \in (1..Len(before)) \ S : at - before[j].timestamp >= hour_window

(* C30: the read-only alert operations never add history: a should_send_alert
   call only removes expired records from alert_history and appends none, and
   a get_alert_stats call leaves alert_history unchanged. *)
C30_ReadOnlyOperationsAddNoHistory ==
    [][/\ decisions' # decisions
          => OnlyExpiredRemoved(alert_history, alert_history', now)
       /\ stats' # stats => alert_history' = alert_history]_vars

(* C30 witness: a history of two records, one of them expired; an allowed
   should_send_alert dropped the expired one and added none, and get_alert_stats
   then counted the remaining one and left it in place *)
C30_Witness ==
    /\ Len(decisions) > 0
    /\ LET d == decisions[Len(decisions)]
       IN  /\ d.via = "should_send_alert"
           /\ d.result
           /\ d.time = now
           /\ Len(d.before) = 2
           /\ alert_history = << d.before[2] >>
    /\ stats.called
    /\ stats.at = now
    /\ stats.total_alerts_last_hour = 1

====
